---- MODULE Spec2Model ----
(***************************************************************************)
(* Model of src/server-utils.ts.                                           *)
(*                                                                         *)
(*   managedShutdown : the SIGINT handler, the graceful-shutdown timeout   *)
(*                     and the callback of gsm.terminate, as reactions of  *)
(*                     one single-threaded event loop (specification Spec) *)
(*   serveModule     : the routes built from a package.json and the answer *)
(*                     each request gets (specification RouteSpec)         *)
(***************************************************************************)
EXTENDS Integers, Sequences, FiniteSets, TLC

\* Bounds of the model (not program constants).
MaxConns == 3       \* connections the listener can have open at once
MaxSigints == 4     \* SIGINTs delivered in one run

VARIABLES
    \* ---- managedShutdown: the closure's variables (lines 109-111)
    graceful,        \* let graceful = true       Shutdown mode: Graceful | Kill
    terminating,     \* let terminating = false   Is already terminating?
    timer,           \* let timer: "unset" | "pending" | "fired" | "cleared"
    \* ---- the process and the listener the closure acts on
    handlers,        \* number of SIGINT listeners installed by process.on
    conns,           \* connections the server has open
    closeQueued,     \* the server's 'close' event is queued (process.nextTick)
    drained,         \* the callback given to gsm.terminate has run
    exited,          \* the process has ended
    exitCode,        \* the status it ended with
    \* ---- history (counts of what the handler did)
    sigints,         \* SIGINTs delivered so far
    terminateCalls,  \* calls of gsm.terminate
    timersStarted,   \* calls of setTimeout
    timerFires,      \* runs of the timeout callback
    exitCalls,       \* calls of process.exit
    connsAtSigint,   \* open connections when the first SIGINT arrived (-1: none yet)
    sigintsAtFlip,   \* SIGINTs delivered when the timeout callback ran (-1: not yet)
    sigintsAtDrain,  \* SIGINTs delivered when the terminate callback ran (-1: not yet)
    \* ---- serveModule: its inputs, the router it builds, one request and its answer
    manifestFile,    \* package.json in dir: "ok" | "missing" | "malformed"
    pkg,             \* const pkg = JSON.parse(...)
    base_url,        \* the parameter base_url
    built,           \* "no" | "router" (serveModule returned) | "thrown"
    router,          \* the layers of express.Router(), in the order they were added
    req,             \* req.url of the request being answered, relative to the router
    res,             \* what the router answered
    \* ---- serveModules: its inputs and the router it builds
    modules,         \* the parameter modules, the whitelist
    node_modules,    \* the directory node_modules: package name -> its package.json
    served,          \* "no" | "router" (serveModules returned) | "thrown"
    mounted          \* the router.use mounts of its router, in the order added

shutdownVars == <<graceful, terminating, timer, handlers, conns, closeQueued, drained,
                  exited, exitCode, sigints, terminateCalls, timersStarted, timerFires,
                  exitCalls, connsAtSigint, sigintsAtFlip, sigintsAtDrain>>

modulesVars == <<modules, node_modules, served, mounted>>

routeVars == <<manifestFile, pkg, base_url, built, router, req, res, modulesVars>>

vars == <<shutdownVars, routeVars>>

-----------------------------------------------------------------------------
(***************************************************************************)
(* managedShutdown                                                         *)
(***************************************************************************)

\* The state once managedShutdown has returned: lines 108-113 have run.
InitShutdown ==
    /\ graceful = TRUE
    /\ terminating = FALSE
    /\ timer = "unset"
    /\ handlers = 1
    /\ conns = 0
    /\ closeQueued = FALSE
    /\ drained = FALSE
    /\ exited = FALSE
    /\ exitCode = 0
    /\ sigints = 0
    /\ terminateCalls = 0
    /\ timersStarted = 0
    /\ timerFires = 0
    /\ exitCalls = 0
    /\ connsAtSigint = -1
    /\ sigintsAtFlip = -1
    /\ sigintsAtDrain = -1

-----------------------------------------------------------------------------
(***************************************************************************)
(* Strings are sequences of characters.  The manifests and requests of the *)
(* model are written in lower case, without '%', '?' or ':', so that the   *)
(* router's case folding, URL decoding and query strings play no part.     *)
(***************************************************************************)

\* Bound of the model: entries of pkg.exports.
MaxExports == 2

\* Bound of the model: length of the whitelist given to serveModules.
MaxModules == 2

Take(s, n) == SubSeq(s, 1, n)
Drop(s, n) == SubSeq(s, n + 1, Len(s))
Front(s) == SubSeq(s, 1, Len(s) - 1)
StartsWith(s, p) == Len(p) <= Len(s) /\ Take(s, Len(p)) = p
EndsWith(s, p) == Len(p) <= Len(s) /\ Drop(s, Len(s) - Len(p)) = p

\* String.prototype.indexOf of one character, counted from 1; 0 when absent.
IndexOf(s, c) ==
    IF \E i \in 1..Len(s) : s[i] = c
    THEN CHOOSE i \in 1..Len(s) : s[i] = c /\ \A j \in 1..(i - 1) : s[j] # c
    ELSE 0

\* path.join and path.normalize of node:path (posix).
RECURSIVE Segments(_)
Segments(s) ==
    LET i == IndexOf(s, "/")
    IN  IF i = 0 THEN <<s>> ELSE <<Take(s, i - 1)>> \o Segments(Drop(s, i))

RECURSIVE NormalizeSegs(_, _, _)
NormalizeSegs(segs, acc, allowAboveRoot) ==
    IF segs = <<>> THEN acc
    ELSE LET h == Head(segs)
             t == Tail(segs)
         IN  IF Len(h) = 0 \/ h = <<".">>
             THEN NormalizeSegs(t, acc, allowAboveRoot)
             ELSE IF h = <<".", ".">>
             THEN IF Len(acc) > 0 /\ acc[Len(acc)] # <<".", ".">>
                  THEN NormalizeSegs(t, Front(acc), allowAboveRoot)
                  ELSE IF allowAboveRoot
                       THEN NormalizeSegs(t, Append(acc, h), allowAboveRoot)
                       ELSE NormalizeSegs(t, acc, allowAboveRoot)
             ELSE NormalizeSegs(t, Append(acc, h), allowAboveRoot)

RECURSIVE JoinSegs(_)
JoinSegs(segs) ==
    IF Len(segs) = 0 THEN <<>>
    ELSE IF Len(segs) = 1 THEN segs[1]
    ELSE segs[1] \o <<"/">> \o JoinSegs(Tail(segs))

Normalize(path) ==
    IF Len(path) = 0 THEN <<".">>
    ELSE LET isAbsolute == path[1] = "/"
             trailingSep == path[Len(path)] = "/"
             p == JoinSegs(NormalizeSegs(Segments(path), <<>>, ~isAbsolute))
         IN  IF Len(p) = 0
             THEN IF isAbsolute THEN <<"/">>
                  ELSE IF trailingSep THEN <<".", "/">> ELSE <<".">>
             ELSE (IF isAbsolute THEN <<"/">> ELSE <<>>) \o p
                      \o (IF trailingSep THEN <<"/">> ELSE <<>>)

NonEmpty(a) == Len(a) > 0

PathJoin(args) ==
    LET parts == SelectSeq(args, NonEmpty)
    IN  IF Len(parts) = 0 THEN <<".">> ELSE Normalize(JoinSegs(parts))

\* The replacement text of String.prototype.replace(string, string): in it
\* $$ stands for $ and $& for the matched text; every other character of the
\* model's requests stands for itself (they hold no backquote and no quote,
\* the two other characters that are special after $).
RECURSIVE Substitution(_, _)
Substitution(repl, matched) ==
    IF Len(repl) = 0 THEN <<>>
    ELSE IF repl[1] = "$" /\ Len(repl) >= 2 /\ repl[2] = "$"
    THEN <<"$">> \o Substitution(Drop(repl, 2), matched)
    ELSE IF repl[1] = "$" /\ Len(repl) >= 2 /\ repl[2] = "&"
    THEN matched \o Substitution(Drop(repl, 2), matched)
    ELSE <<repl[1]>> \o Substitution(Drop(repl, 1), matched)

\* file.replace("*", repl): the first "*" only; without one, no change.
ReplaceStar(file, repl) ==
    LET i == IndexOf(file, "*")
    IN  IF i = 0 THEN file
        ELSE Take(file, i - 1) \o Substitution(repl, <<"*">>) \o Drop(file, i)

\* exp.replace(/^\.\/?/, '') of line 64.
StripDot(exp) ==
    IF StartsWith(exp, <<".", "/">>) THEN Drop(exp, 2)
    ELSE IF StartsWith(exp, <<".">>) THEN Drop(exp, 1)
    ELSE exp

\* submodule.replace(/\*$/, ':file') of line 67.
GlobPath(submodule) ==
    IF EndsWith(submodule, <<"*">>) THEN Front(submodule) \o <<":", "f", "i", "l", "e">>
    ELSE submodule

-----------------------------------------------------------------------------
(***************************************************************************)
(* The package manifests, base URLs and requests of the model              *)
(***************************************************************************)

\* A key of package.json: absent (undefined or null) or a string.
Absent == [has |-> FALSE, val |-> <<>>]
Str(s) == [has |-> TRUE, val |-> s]

\* "browser": absent, "" or "web.js"
BrowserValues == {Absent, Str(<<>>), Str(<<"w", "e", "b", ".", "j", "s">>)}
\* "module": absent or "esm.js"
ModuleValues == {Absent, Str(<<"e", "s", "m", ".", "j", "s">>)}
\* "main": absent or "index.js"
MainValues == {Absent, Str(<<"i", "n", "d", "e", "x", ".", "j", "s">>)}

\* Entries of "exports", <<key, target>>:
\*   ".": "index.js"            "./": "index.js"        "./bar": "lib/bar.js"
\*   "./glob/*": "dist/*.min.js"  "./glob/x": "lib/x.js"  "./all/*": "src/*/*.js"
\*   "./lib": "./dist"
ExportEntries ==
    { <<<<".">>, <<"i", "n", "d", "e", "x", ".", "j", "s">>>>,
      <<<<".", "/">>, <<"i", "n", "d", "e", "x", ".", "j", "s">>>>,
      <<<<".", "/", "b", "a", "r">>, <<"l", "i", "b", "/", "b", "a", "r", ".", "j", "s">>>>,
      <<<<".", "/", "g", "l", "o", "b", "/", "*">>, <<"d", "i", "s", "t", "/", "*", ".", "m", "i", "n", ".", "j", "s">>>>,
      <<<<".", "/", "g", "l", "o", "b", "/", "x">>, <<"l", "i", "b", "/", "x", ".", "j", "s">>>>,
      <<<<".", "/", "a", "l", "l", "/", "*">>, <<"s", "r", "c", "/", "*", "/", "*", ".", "j", "s">>>>,
      <<<<".", "/", "l", "i", "b">>, <<".", "/", "d", "i", "s", "t">>>> }

\* The export maps: up to MaxExports entries with distinct keys, in declared order.
RECURSIVE ExportMaps(_)
ExportMaps(n) ==
    IF n = 0 THEN {<<>>}
    ELSE LET shorter == ExportMaps(n - 1)
         IN  shorter \cup
                { Append(m, e) : m \in {x \in shorter : Len(x) = n - 1},
                                 e \in ExportEntries }

DistinctKeys(m) == \A i, j \in 1..Len(m) : i # j => m[i][1] # m[j][1]

Manifests ==
    { [browser |-> b, module |-> mo, main |-> ma, exports |-> e] :
        b \in BrowserValues, mo \in ModuleValues, ma \in MainValues,
        e \in {m \in ExportMaps(MaxExports) : DistinctKeys(m)} }

EmptyPkg == [browser |-> Absent, module |-> Absent, main |-> Absent, exports |-> <<>>]

\* base_url: "/vendor/foo"
BaseUrls == {<<"/", "v", "e", "n", "d", "o", "r", "/", "f", "o", "o">>}

\* Request paths below the router: "/", "/bar", "/bar/", "/glob/x", "/glob/$&",
\* "/glob/x/y", "/all/x", "/lib", "/lib/a.js", "/unknown.css"
Requests ==
    { <<"/">>,
      <<"/", "b", "a", "r">>,
      <<"/", "b", "a", "r", "/">>,
      <<"/", "g", "l", "o", "b", "/", "x">>,
      <<"/", "g", "l", "o", "b", "/", "$", "&">>,
      <<"/", "g", "l", "o", "b", "/", "x", "/", "y">>,
      <<"/", "a", "l", "l", "/", "x">>,
      <<"/", "l", "i", "b">>,
      <<"/", "l", "i", "b", "/", "a", ".", "j", "s">>,
      <<"/", "u", "n", "k", "n", "o", "w", "n", ".", "c", "s", "s">> }

-----------------------------------------------------------------------------
(***************************************************************************)
(* serveModule                                                             *)
(***************************************************************************)

\* Line 58: pkg.browser ?? pkg.module ?? pkg.main
EntryField(p) ==
    IF p.browser.has THEN p.browser
    ELSE IF p.module.has THEN p.module
    ELSE p.main

\* Lines 55-58: readFileSync throws when package.json is missing, JSON.parse when
\* it is malformed, path.join when its second argument is undefined.
Throws(file, p) == file # "ok" \/ ~EntryField(p).has

\* Lines 58-59: router.get('/', ...) redirecting to main.
EntryLayer(p, base) ==
    [type |-> "entry", path |-> <<"/">>, exp |-> 0,
     target |-> PathJoin(<<base, EntryField(p).val>>)]

\* Lines 63-80: the layer an entry of pkg.exports adds; exp is its index in
\* Object.entries(pkg_exports).
ExportLayer(e, i, base) ==
    LET submodule == StripDot(e[1])
        file == e[2]
    IN  IF EndsWith(submodule, <<"*">>)
        THEN [type |-> "glob", path |-> <<"/">> \o GlobPath(submodule), exp |-> i,
              target |-> file]
        ELSE IF EndsWith(file, <<".", "j", "s">>)
        THEN [type |-> "file", path |-> <<"/">> \o submodule, exp |-> i,
              target |-> PathJoin(<<base, file>>)]
        ELSE [type |-> "dir", path |-> <<"/">> \o submodule, exp |-> i,
              target |-> submodule]

RECURSIVE ExportLayers(_, _, _)
ExportLayers(exports, i, base) ==
    IF i > Len(exports) THEN <<>>
    ELSE IF Len(StripDot(exports[i][1])) = 0
    THEN ExportLayers(exports, i + 1, base)
    ELSE <<ExportLayer(exports[i], i, base)>> \o ExportLayers(exports, i + 1, base)

\* Line 83: router.use("/", express.static(dir)).
StaticLayer == [type |-> "static", path |-> <<"/">>, exp |-> 0, target |-> <<>>]

\* Mutant: the route of the package root is registered after those of exports.
LayersEntryAfterExports(p, base) ==
    ExportLayers(p.exports, 1, base) \o <<EntryLayer(p, base)>> \o <<StaticLayer>>

\* Lines 53-85: the layers of the router serveModule returns.
Layers(p, base) ==
    <<EntryLayer(p, base)>> \o ExportLayers(p.exports, 1, base) \o <<StaticLayer>>

\* The request path without the one trailing slash a non-strict route allows.
Unslashed(url) ==
    IF Len(url) > 1 /\ url[Len(url)] = "/" THEN Front(url) ELSE url

IsParamPath(path) == EndsWith(path, <<":", "f", "i", "l", "e">>)

ParamPrefix(path) == Take(path, Len(path) - 5)

\* req.params.file: what :file captures, one or more characters other than '/'.
ParamFile(path, url) == Drop(Unslashed(url), Len(ParamPrefix(path)))

\* Whether a layer takes the request: router.use("/") takes every path, a
\* router.get path must match wholly, :file standing for one path segment.
Matches(layer, url) ==
    IF layer.type = "static" THEN TRUE
    ELSE IF IsParamPath(layer.path)
    THEN /\ StartsWith(Unslashed(url), ParamPrefix(layer.path))
         /\ Len(ParamFile(layer.path, url)) > 0
         /\ IndexOf(ParamFile(layer.path, url), "/") = 0
    ELSE Unslashed(url) = Unslashed(layer.path)

\* Mutant: the redirect is sent as a permanent one.
redirectModuleMoved(location, n) ==
    [kind |-> "redirect", status |-> 301, location |-> location, file |-> <<>>,
     layer |-> n]

\* Lines 88-90: res.header("location", location).sendStatus(302).
redirectModule(location, n) ==
    [kind |-> "redirect", status |-> 302, location |-> location, file |-> <<>>,
     layer |-> n]

\* Mutant: the fallback answers 404 by itself.
ServeStaticNotFound(url, n) ==
    [kind |-> "error", status |-> 404, location |-> <<>>, file |-> <<>>, layer |-> n]

\* express.static(dir): the file of dir the request path names is served, if any.
ServeStatic(url, n) ==
    [kind |-> "static", status |-> 0, location |-> <<>>, file |-> Normalize(url),
     layer |-> n]

\* The handlers of lines 59, 67-70, 76, 78 and 83.
Handle(layer, n, base, url) ==
    CASE layer.type = "entry" -> redirectModule(layer.target, n)
      [] layer.type = "file" -> redirectModule(layer.target, n)
      [] layer.type = "glob" ->
            redirectModule(
                PathJoin(<<base, ReplaceStar(layer.target, ParamFile(layer.path, url))>>), n)
      [] layer.type = "dir" -> redirectModule(PathJoin(<<base, layer.target, url>>), n)
      [] layer.type = "static" -> ServeStatic(url, n)

\* Mutant: among the routes of pkg.exports the one declared last answers.
FirstMatchLatestWins(layers, url) ==
    CHOOSE n \in 1..Len(layers) :
        /\ Matches(layers[n], url)
        /\ \A k \in 1..Len(layers) :
              (k # n /\ Matches(layers[k], url))
                  => \/ layers[k].type = "static"
                     \/ (layers[n].type # "static" /\ k < n)

\* The router answers with its first layer that takes the request.
FirstMatch(layers, url) ==
    CHOOSE n \in 1..Len(layers) :
        Matches(layers[n], url) /\ \A k \in 1..(n - 1) : ~Matches(layers[k], url)

Respond(layers, base, url) ==
    Handle(layers[FirstMatch(layers, url)], FirstMatch(layers, url), base, url)

NoResponse == [kind |-> "none", status |-> 0, location |-> <<>>, file |-> <<>>, layer |-> 0]

\* node_modules/<name>/package.json is not there.
MissingDir == [file |-> "missing", pkg |-> EmptyPkg]

\* Package names of the model: "foo", "foobar"
PackageNames == {<<"f", "o", "o">>, <<"f", "o", "o", "b", "a", "r">>}

\* serveModules has not been called (the state of these variables under Spec
\* and RouteSpec).
NoModules ==
    /\ modules = <<>>
    /\ node_modules = [name \in PackageNames |-> MissingDir]
    /\ served = "no"
    /\ mounted = <<>>

\* No module is being served (the state of these variables under Spec).
NoModule ==
    /\ manifestFile = "missing"
    /\ pkg = EmptyPkg
    /\ base_url = <<>>
    /\ built = "no"
    /\ router = <<>>
    /\ req = <<>>
    /\ res = NoResponse

\* serveModule is about to be called on a package of node_modules.
InitRoutes ==
    /\ manifestFile \in {"ok", "missing", "malformed"}
    /\ pkg \in (IF manifestFile = "ok" THEN Manifests ELSE {EmptyPkg})
    /\ base_url \in BaseUrls
    /\ built = "no"
    /\ router = <<>>
    /\ req = <<>>
    /\ res = NoResponse

\* Lines 50-86: serveModule(module, node_modules, base_url).
ServeModule ==
    /\ built = "no"
    /\ built' = IF Throws(manifestFile, pkg) THEN "thrown" ELSE "router"
    /\ router' = IF Throws(manifestFile, pkg) THEN <<>> ELSE Layers(pkg, base_url)
    /\ UNCHANGED <<manifestFile, pkg, base_url, req, res, modulesVars, shutdownVars>>

\* A GET request reaches the router.
Get ==
    /\ built = "router"
    /\ \E url \in Requests :
        /\ req' = url
        /\ res' = Respond(router, base_url, url)
    /\ UNCHANGED <<manifestFile, pkg, base_url, built, router, modulesVars, shutdownVars>>

RouteInit == InitShutdown /\ InitRoutes /\ NoModules

RouteNext ==
    \/ ServeModule
    \/ Get

RouteSpec == RouteInit /\ [][RouteNext]_vars

-----------------------------------------------------------------------------
(***************************************************************************)
(* serveModules                                                            *)
(***************************************************************************)

\* What node_modules holds for a package: no package.json, a package.json that
\* is not JSON,
\*   {"main": "index.js", "exports": {"./bar": "lib/bar.js"}}   or
\*   {"module": "esm.js", "exports": {"./glob/*": "dist/*.min.js"}}
PackageDirs ==
    { MissingDir,
      [file |-> "malformed", pkg |-> EmptyPkg],
      [file |-> "ok",
       pkg |-> [browser |-> Absent, module |-> Absent, main |-> Str(<<"i", "n", "d", "e", "x", ".", "j", "s">>),
                exports |-> <<<<<<".", "/", "b", "a", "r">>, <<"l", "i", "b", "/", "b", "a", "r", ".", "j", "s">>>>>>]],
      [file |-> "ok",
       pkg |-> [browser |-> Absent, module |-> Str(<<"e", "s", "m", ".", "j", "s">>), main |-> Absent,
                exports |-> <<<<<<".", "/", "g", "l", "o", "b", "/", "*">>, <<"d", "i", "s", "t", "/", "*", ".", "m", "i", "n", ".", "j", "s">>>>>>]] }

\* The whitelists: sequences of package names, repetitions allowed.
Whitelists == UNION {[1..n -> PackageNames] : n \in 0..MaxModules}

\* base_url of serveModules: "/vendor"
ModulesBaseUrls == {<<"/", "v", "e", "n", "d", "o", "r">>}

\* Request paths below the router of serveModules: "/", "/foo", "/foo/",
\* "/foo/bar", "/foo/glob/x", "/foo/unknown.css", "/foobar/", "/foobar/bar",
\* "/foobar/glob/x", "/baz/bar"
ModulesRequests ==
    { <<"/">>, <<"/", "f", "o", "o">>, <<"/", "f", "o", "o", "/">>, <<"/", "f", "o", "o", "/", "b", "a", "r">>, <<"/", "f", "o", "o", "/", "g", "l", "o", "b", "/", "x">>, <<"/", "f", "o", "o", "/", "u", "n", "k", "n", "o", "w", "n", ".", "c", "s", "s">>,
      <<"/", "f", "o", "o", "b", "a", "r", "/">>, <<"/", "f", "o", "o", "b", "a", "r", "/", "b", "a", "r">>, <<"/", "f", "o", "o", "b", "a", "r", "/", "g", "l", "o", "b", "/", "x">>, <<"/", "b", "a", "z", "/", "b", "a", "r">> }

\* Line 25: serveModule(module, node_modules, path.join(base_url, module))
\* throws for this package.
ModuleThrows(module, dirs) == Throws(dirs[module].file, dirs[module].pkg)

\* Mutant: every package is built with the base_url of serveModules itself.
MountSharedBase(module, dirs, base) ==
    [name |-> module, path |-> <<"/">> \o module, base |-> base,
     layers |-> Layers(dirs[module].pkg, base)]

\* Line 25: router.use('/'+module, <the router of serveModule>).
Mount(module, dirs, base) ==
    [name |-> module, path |-> <<"/">> \o module,
     base |-> PathJoin(<<base, module>>),
     layers |-> Layers(dirs[module].pkg, PathJoin(<<base, module>>))]

\* Lines 24-26: the loop over the whitelist.
Mounts(ms, dirs, base) == [k \in 1..Len(ms) |-> Mount(ms[k], dirs, base)]

\* An await of line 25 rejects, and with it the promise of serveModules.
ServeModulesThrows(ms, dirs) == \E k \in 1..Len(ms) : ModuleThrows(ms[k], dirs)

\* router.use(path, ...) takes the request paths that are path or start with
\* path followed by '/'.
MountMatches(mount, url) ==
    url = mount.path \/ StartsWith(url, mount.path \o <<"/">>)

\* req.url inside the mounted router: the mount path is taken off.
MountUrl(mount, url) ==
    IF Len(url) = Len(mount.path) THEN <<"/">> ELSE Drop(url, Len(mount.path))

\* No mount took the request: it is left to the application.
Unhandled ==
    [kind |-> "unhandled", status |-> 0, location |-> <<>>, file |-> <<>>, layer |-> 0]

\* The first mount that takes the request answers it.
RespondModules(mounts, url) ==
    IF \E k \in 1..Len(mounts) : MountMatches(mounts[k], url)
    THEN LET k == CHOOSE n \in 1..Len(mounts) :
                      /\ MountMatches(mounts[n], url)
                      /\ \A j \in 1..(n - 1) : ~MountMatches(mounts[j], url)
         IN  Respond(mounts[k].layers, mounts[k].base, MountUrl(mounts[k], url))
    ELSE Unhandled

\* serveModules is about to be called on a whitelist.
InitModules ==
    /\ modules \in Whitelists
    /\ node_modules \in [PackageNames -> PackageDirs]
    /\ base_url \in ModulesBaseUrls
    /\ served = "no"
    /\ mounted = <<>>
    /\ manifestFile = "missing"
    /\ pkg = EmptyPkg
    /\ built = "no"
    /\ router = <<>>
    /\ req = <<>>
    /\ res = NoResponse

\* Lines 20-28: serveModules(modules, node_modules, base_url).
ServeModules ==
    /\ served = "no"
    /\ served' = IF ServeModulesThrows(modules, node_modules) THEN "thrown" ELSE "router"
    /\ mounted' = IF ServeModulesThrows(modules, node_modules) THEN <<>>
                  ELSE Mounts(modules, node_modules, base_url)
    /\ UNCHANGED <<modules, node_modules, manifestFile, pkg, base_url, built, router,
                   req, res, shutdownVars>>

\* A GET request reaches the router of serveModules.
GetModules ==
    /\ served = "router"
    /\ \E url \in ModulesRequests :
        /\ req' = url
        /\ res' = RespondModules(mounted, url)
    /\ UNCHANGED <<modules, node_modules, served, mounted, manifestFile, pkg, base_url,
                   built, router, shutdownVars>>

ModulesInit == InitShutdown /\ InitModules

ModulesNext ==
    \/ ServeModules
    \/ GetModules

ModulesSpec == ModulesInit /\ [][ModulesNext]_vars

-----------------------------------------------------------------------------
(***************************************************************************)
(* The event loop of managedShutdown                                       *)
(***************************************************************************)

\* The reactions of the event loop run to completion, and the process.nextTick
\* queue (where net.Server queues the emission of 'close') is emptied before
\* the loop takes the next signal, timer or socket event.
LoopIdle == ~exited /\ ~closeQueued

history == <<sigintsAtFlip, sigintsAtDrain>>

\* Line 116: if(terminating) return;
IgnoreSigint ==
    UNCHANGED <<graceful, terminating, timer, conns, closeQueued, drained,
                exited, exitCode, terminateCalls, timersStarted, timerFires, exitCalls>>

\* Mutant: the drain is started without the setTimeout of lines 131-137.
StartDrainNoTimer ==
    /\ terminating' = TRUE
    /\ terminateCalls' = terminateCalls + 1
    /\ closeQueued' = (conns = 0)
    /\ UNCHANGED <<graceful, timer, timersStarted, conns, drained, exited, exitCode,
                   timerFires, exitCalls>>

\* Lines 117-137: terminating = true; gsm.terminate(callback); timer = setTimeout(...).
\* gsm.terminate closes the listener: with no connection open the server queues
\* its 'close' event at once, otherwise when the last connection ends.
StartDrain ==
    /\ terminating' = TRUE
    /\ terminateCalls' = terminateCalls + 1
    /\ closeQueued' = (conns = 0)
    /\ timer' = "pending"
    /\ timersStarted' = timersStarted + 1
    /\ UNCHANGED <<graceful, conns, drained, exited, exitCode, timerFires, exitCalls>>

\* Mutant: the check of line 116 is missing.
GracefulBranchNoGuard ==
    StartDrain

\* Mutant: line 116 ignores the signal only until the listener has drained.
GracefulBranchRedrain ==
    IF terminating /\ ~drained THEN IgnoreSigint ELSE StartDrain

\* Lines 115-138: the branch taken while the mode is Graceful.
GracefulBranch ==
    IF terminating THEN IgnoreSigint ELSE StartDrain

\* Mutant: process.exit() without the status.
KillBranchExitZero ==
    /\ exited' = TRUE
    /\ exitCode' = 0
    /\ exitCalls' = exitCalls + 1
    /\ UNCHANGED <<graceful, terminating, timer, conns, closeQueued, drained,
                   terminateCalls, timersStarted, timerFires>>

\* Lines 141-144: process.exit(-1).
KillBranch ==
    /\ exited' = TRUE
    /\ exitCode' = -1
    /\ exitCalls' = exitCalls + 1
    /\ UNCHANGED <<graceful, terminating, timer, conns, closeQueued, drained,
                   terminateCalls, timersStarted, timerFires>>

\* Mutant: the handler tests terminating instead of graceful, so that the second
\* SIGINT kills whatever the timeout did.
SigintKillWhenTerminating ==
    /\ LoopIdle
    /\ handlers >= 1
    /\ sigints < MaxSigints
    /\ sigints' = sigints + 1
    /\ connsAtSigint' = IF sigints = 0 THEN conns ELSE connsAtSigint
    /\ IF ~terminating THEN GracefulBranch ELSE KillBranch
    /\ UNCHANGED <<handlers, history, routeVars>>

\* Mutant: the listener is registered with process.once.
SigintOnce ==
    /\ LoopIdle
    /\ handlers >= 1
    /\ sigints < MaxSigints
    /\ sigints' = sigints + 1
    /\ connsAtSigint' = IF sigints = 0 THEN conns ELSE connsAtSigint
    /\ IF graceful THEN GracefulBranch ELSE KillBranch
    /\ handlers' = handlers - 1
    /\ UNCHANGED <<history, routeVars>>

\* Lines 113-145: the listener of process.on("SIGINT", ...).
Sigint ==
    /\ LoopIdle
    /\ handlers >= 1
    /\ sigints < MaxSigints
    /\ sigints' = sigints + 1
    /\ connsAtSigint' = IF sigints = 0 THEN conns ELSE connsAtSigint
    /\ IF graceful THEN GracefulBranch ELSE KillBranch
    /\ UNCHANGED <<handlers, history, routeVars>>

\* Mutant: the timeout callback ends the process itself.
TimeoutCallbackExit ==
    /\ graceful' = FALSE
    /\ timer' = "fired"
    /\ timerFires' = timerFires + 1
    /\ exited' = TRUE
    /\ exitCode' = -1
    /\ exitCalls' = exitCalls + 1
    /\ UNCHANGED <<terminating, handlers, conns, closeQueued, drained,
                   terminateCalls, timersStarted>>

\* Lines 131-137: the callback of setTimeout: graceful = false.
TimeoutCallback ==
    /\ graceful' = FALSE
    /\ timer' = "fired"
    /\ timerFires' = timerFires + 1
    /\ UNCHANGED <<terminating, handlers, conns, closeQueued, drained, exited, exitCode,
                   terminateCalls, timersStarted, exitCalls>>

TimerFire ==
    /\ LoopIdle
    /\ timer = "pending"
    /\ TimeoutCallback
    /\ sigintsAtFlip' = sigints
    /\ UNCHANGED <<sigints, connsAtSigint, sigintsAtDrain, routeVars>>

\* Mutant: the callback does not clear the timeout.
TerminateCallbackNoClear ==
    /\ drained' = TRUE
    /\ closeQueued' = FALSE
    /\ UNCHANGED <<graceful, terminating, timer, handlers, conns, exited, exitCode,
                   terminateCalls, timersStarted, timerFires, exitCalls>>

\* Mutant: once the listener has drained the callback puts the mode back to
\* Graceful.
TerminateCallbackResetsMode ==
    /\ timer' = IF timer = "pending" THEN "cleared" ELSE timer
    /\ drained' = TRUE
    /\ closeQueued' = FALSE
    /\ graceful' = TRUE
    /\ UNCHANGED <<terminating, handlers, conns, exited, exitCode,
                   terminateCalls, timersStarted, timerFires, exitCalls>>

\* Mutant: once the listener has drained the callback makes the handler ready
\* for another shutdown.
TerminateCallbackRearms ==
    /\ timer' = IF timer = "pending" THEN "cleared" ELSE timer
    /\ drained' = TRUE
    /\ closeQueued' = FALSE
    /\ terminating' = FALSE
    /\ UNCHANGED <<graceful, handlers, conns, exited, exitCode,
                   terminateCalls, timersStarted, timerFires, exitCalls>>

\* Lines 122-127: the callback of gsm.terminate: if(timer) clearTimeout(timer).
\* clearTimeout of a timer that has fired changes nothing.
TerminateCallback ==
    /\ timer' = IF timer = "pending" THEN "cleared" ELSE timer
    /\ drained' = TRUE
    /\ closeQueued' = FALSE
    /\ UNCHANGED <<graceful, terminating, handlers, conns, exited, exitCode,
                   terminateCalls, timersStarted, timerFires, exitCalls>>

DrainComplete ==
    /\ ~exited
    /\ closeQueued
    /\ TerminateCallback
    /\ sigintsAtDrain' = sigints
    /\ UNCHANGED <<sigints, connsAtSigint, sigintsAtFlip, routeVars>>

\* The listener of line 105: it accepts connections until gsm.terminate closes it.
ConnOpen ==
    /\ LoopIdle
    /\ terminateCalls = 0
    /\ conns < MaxConns
    /\ conns' = conns + 1
    /\ UNCHANGED <<graceful, terminating, timer, handlers, closeQueued, drained, exited,
                   exitCode, sigints, terminateCalls, timersStarted, timerFires,
                   exitCalls, connsAtSigint, sigintsAtFlip, sigintsAtDrain, routeVars>>

\* A connection ends; the last one of a closed listener queues its 'close' event.
ConnClose ==
    /\ LoopIdle
    /\ conns > 0
    /\ conns' = conns - 1
    /\ closeQueued' = (terminateCalls > 0 /\ conns = 1)
    /\ UNCHANGED <<graceful, terminating, timer, handlers, drained, exited, exitCode,
                   sigints, terminateCalls, timersStarted, timerFires, exitCalls,
                   connsAtSigint, sigintsAtFlip, sigintsAtDrain, routeVars>>

\* Line 124: with the listener closed and no timeout pending nothing of
\* managedShutdown keeps the event loop alive, and the process can end by itself
\* (status 0); whether it does is up to the rest of the program.
ProcessEnd ==
    /\ LoopIdle
    /\ drained
    /\ timer # "pending"
    /\ exited' = TRUE
    /\ UNCHANGED <<graceful, terminating, timer, handlers, conns, closeQueued, drained,
                   exitCode, sigints, terminateCalls, timersStarted, timerFires,
                   exitCalls, connsAtSigint, sigintsAtFlip, sigintsAtDrain, routeVars>>

Init == InitShutdown /\ NoModule /\ NoModules

Next ==
    \/ Sigint
    \/ TimerFire
    \/ DrainComplete
    \/ ConnOpen
    \/ ConnClose
    \/ ProcessEnd

Spec == Init /\ [][Next]_vars

\* The event loop runs a timeout that is due and a callback that is queued:
\* neither waits forever while the process runs. Nothing makes a connection
\* end, a SIGINT arrive or the process end by itself.
FairSpec ==
    /\ Init
    /\ [][Next]_vars
    /\ WF_vars(TimerFire)
    /\ WF_vars(DrainComplete)

\* The states of the coordinator.
Killed == exited /\ exitCode = -1
Terminated == drained /\ ~Killed
Escalated == ~graceful /\ ~drained /\ ~exited
Draining == graceful /\ terminating /\ ~drained /\ ~exited
Idle == ~terminating /\ ~exited

-----------------------------------------------------------------------------
(***************************************************************************)
(* Properties of managedShutdown                                           *)
(***************************************************************************)

\* C1: once the timeout has fired with the drain still incomplete, the next
\* SIGINT ends the process with status -1, whatever the drain has done since.
C1_KillAfterDeadline ==
    [][(sigints' # sigints /\ timer = "fired")
          => (exited' /\ exitCode' = -1 /\ exitCalls' = exitCalls + 1)]_vars

C1_Witness ==
    Killed /\ sigints = 2 /\ sigintsAtFlip = 1 /\ ~drained /\ conns > 0

\* C2: a SIGINT delivered while terminating is true and the mode is Graceful
\* changes nothing: no second gsm.terminate, no second setTimeout, and mode,
\* terminating and timer stay as they were; one drain attempt has been made.
C2_SecondSigintIgnored ==
    [][(sigints' # sigints /\ terminating /\ graceful)
          => (/\ UNCHANGED <<graceful, terminating, timer, conns, closeQueued, drained,
                             exited, exitCode, exitCalls, timerFires>>
              /\ terminateCalls' = 1
              /\ timersStarted' = 1)]_vars

C2_Witness ==
    sigints >= 2 /\ graceful /\ terminating /\ timer = "pending" /\ terminateCalls = 1
        /\ ~drained /\ ~exited

\* C3: the process is ended with status -1 only in mode Kill, by a SIGINT that
\* came after the timeout fired; never by the first SIGINT.
C3_NoKillWhileGraceful ==
    Killed => (/\ ~graceful
               /\ timerFires >= 1
               /\ sigintsAtFlip >= 1
               /\ sigintsAtFlip < sigints
               /\ sigints >= 2
               /\ exitCalls = 1)

C3_Witness ==
    Killed /\ sigintsAtFlip >= 2 /\ sigints = sigintsAtFlip + 1

\* C4: when the first SIGINT finds no connection open, the drain completes as
\* the next reaction: the timeout never fires and the mode never becomes Kill.
C4_ZeroConnsNeverEscalates ==
    connsAtSigint = 0
        => (/\ graceful
            /\ timerFires = 0
            /\ ~Killed
            /\ \/ Draining /\ closeQueued /\ timer = "pending"
               \/ Terminated /\ timer = "cleared")

C4_Witness ==
    connsAtSigint = 0 /\ sigints = 1 /\ Terminated /\ timer = "cleared" /\ graceful

\* C5: a drain completed before the timeout fired clears the timeout; from then on
\* the timeout never fires, the mode stays Graceful, and no SIGINT starts a
\* drain or ends the process with status -1.
C5_DrainCancelsTimer ==
    [][/\ (~drained /\ drained' /\ timerFires = 0) => timer' = "cleared"
       /\ (drained /\ timer = "cleared")
             => (/\ timer' = "cleared"
                 /\ graceful'
                 /\ drained'
                 /\ ~closeQueued'
                 /\ exitCode' # -1
                 /\ UNCHANGED <<terminating, terminateCalls, timersStarted, timerFires,
                                exitCalls>>)]_vars

C5_Witness ==
    drained /\ timer = "cleared" /\ sigints > sigintsAtDrain /\ sigintsAtDrain >= 1
        /\ graceful /\ connsAtSigint > 0

\* C6 as stated: once the listener has drained after the timeout fired, with no
\* SIGINT in between, the coordinator never reaches Killed.
C6_Original ==
    (drained /\ timer = "fired" /\ sigintsAtDrain = sigintsAtFlip) => ~Killed

\* C6 as amended: the timeout callback flips the mode and does nothing else; as
\* long as no SIGINT has been delivered since, the process is not killed, and a
\* listener that drains meanwhile leaves the coordinator in Terminated.
C6_FlipDecoupledFromExit ==
    /\ []((timer = "fired" /\ sigints = sigintsAtFlip)
            => (~graceful /\ ~Killed /\ exitCalls = 0 /\ (drained => Terminated)))
    /\ [][timerFires' # timerFires
            => (/\ ~graceful'
                /\ UNCHANGED <<terminating, conns, drained, exited, exitCode, exitCalls,
                               terminateCalls, timersStarted>>)]_vars

C6_Witness ==
    drained /\ timer = "fired" /\ sigintsAtDrain = sigintsAtFlip
        /\ sigints = sigintsAtFlip /\ exited /\ exitCode = 0

\* C7: one SIGINT listener is installed, and no reaction installs or removes one.
C7_OneHandler ==
    handlers = 1

C7_Witness ==
    handlers = 1 /\ sigints >= 2 /\ timerFires = 1 /\ drained

-----------------------------------------------------------------------------
(***************************************************************************)
(* Properties of serveModule                                               *)
(***************************************************************************)

\* The keys of pkg.exports a request is declared for: an exact key names the
\* whole request path, a key ending in '*' its prefix and then one segment.
KeyCovers(key, url) ==
    LET sub == StripDot(key)
    IN  /\ Len(sub) > 0
        /\ IF EndsWith(sub, <<"*">>)
           THEN /\ StartsWith(url, <<"/">> \o Front(sub))
                /\ Len(url) > Len(sub)
                /\ IndexOf(Drop(url, Len(sub)), "/") = 0
           ELSE url = <<"/">> \o sub

\* C8 as stated: the root of the package redirects to the first non-empty one
\* of browser, module and main, joined to base_url; with all three absent
\* serveModule fails and returns no router.
C8_Original ==
    LET nonEmpty(f) == f.has /\ Len(f.val) > 0
        first == IF nonEmpty(pkg.browser) THEN pkg.browser.val
                 ELSE IF nonEmpty(pkg.module) THEN pkg.module.val
                 ELSE pkg.main.val
    IN  /\ (manifestFile = "ok" /\ built # "no"
                /\ ~pkg.browser.has /\ ~pkg.module.has /\ ~pkg.main.has)
              => (built = "thrown" /\ router = <<>>)
        /\ (manifestFile = "ok" /\ built # "no"
                /\ (nonEmpty(pkg.browser) \/ nonEmpty(pkg.module) \/ nonEmpty(pkg.main)))
              => (/\ built = "router"
                  /\ req = <<"/">>
                        => (/\ res.kind = "redirect"
                            /\ res.status = 302
                            /\ res.location = PathJoin(<<base_url, first>>)))

\* C9 as stated: for an entry of pkg.exports whose key does not end in '*' and
\* whose target does not end in ".js", a request for <key>/<rest> is handed to
\* static serving of <target>/<rest>, and is not redirected.
C9_Original ==
    \A i \in 1..Len(pkg.exports) :
        LET sub == StripDot(pkg.exports[i][1])
            dir == pkg.exports[i][2]
            prefix == <<"/">> \o sub \o <<"/">>
        IN  (/\ res.kind # "none"
             /\ Len(sub) > 0
             /\ ~EndsWith(sub, <<"*">>)
             /\ ~EndsWith(dir, <<".", "j", "s">>)
             /\ StartsWith(req, prefix)
             /\ \A j \in 1..Len(pkg.exports) : j # i => ~KeyCovers(pkg.exports[j][1], req))
                => (/\ res.kind = "static"
                    /\ res.file = PathJoin(<<<<"/">>, dir, Drop(req, Len(prefix))>>))

\* C10 as stated: for an entry of pkg.exports whose key ends in '*', a request
\* for the key's prefix followed by one segment is answered 302 with the
\* location base_url joined with the target in which the segment stands in
\* the place of the wildcard.
C10_Original ==
    \A i \in 1..Len(pkg.exports) :
        LET sub == StripDot(pkg.exports[i][1])
            pattern == pkg.exports[i][2]
            star == IndexOf(pattern, "*")
            segment == Drop(req, Len(sub))
        IN  (/\ res.kind # "none"
             /\ EndsWith(sub, <<"*">>)
             /\ star > 0
             /\ KeyCovers(pkg.exports[i][1], req)
             /\ \A j \in 1..(i - 1) : ~KeyCovers(pkg.exports[j][1], req))
                => (/\ res.kind = "redirect"
                    /\ res.status = 302
                    /\ res.location =
                          PathJoin(<<base_url,
                                     Take(pattern, star - 1) \o segment
                                         \o Drop(pattern, star)>>))

\* C11: when two entries of pkg.exports are declared for the same request, the
\* one declared first answers it: the answer comes from its layer, and is
\* neither the later entry's redirect nor the static fallback.
C11_FirstDeclaredWins ==
    \A i, j \in 1..Len(pkg.exports) :
        (/\ res.kind # "none"
         /\ i < j
         /\ KeyCovers(pkg.exports[i][1], req)
         /\ KeyCovers(pkg.exports[j][1], req)
         /\ \A k \in 1..(i - 1) : ~KeyCovers(pkg.exports[k][1], req))
            => (/\ res.kind = "redirect"
                /\ router[res.layer].exp = i
                /\ res.layer < Len(router)
                /\ EndsWith(StripDot(pkg.exports[i][1]), <<"*">>)
                      => res.location # PathJoin(<<base_url, pkg.exports[j][2]>>)
                /\ ~EndsWith(StripDot(pkg.exports[i][1]), <<"*">>)
                      => res.location = PathJoin(<<base_url, pkg.exports[i][2]>>))

\* "./glob/x" declared before "./glob/*": GET /glob/x is sent to lib/x.js.
C11_Witness ==
    /\ Len(pkg.exports) = 2
    /\ pkg.exports[1][1] = <<".", "/", "g", "l", "o", "b", "/", "x">>
    /\ pkg.exports[2][1] = <<".", "/", "g", "l", "o", "b", "/", "*">>
    /\ req = <<"/", "g", "l", "o", "b", "/", "x">>
    /\ res.location = <<"/", "v", "e", "n", "d", "o", "r", "/", "f", "o", "o", "/", "l", "i", "b", "/", "x", ".", "j", "s">>

\* C12: GET of the package root is answered with 302 and the location
\* base_url/<an entry field of the manifest>; GET of an exact key whose target
\* ends in ".js" (no earlier key covering the request) is answered with 302 and
\* the location base_url/<its target>. The location is the one stored in the
\* route when it was built, and no file is served.
C12_ExactRedirect ==
    /\ (res.kind # "none" /\ req = <<"/">>)
          => /\ res.kind = "redirect"
             /\ res.status = 302
             /\ res.file = <<>>
             /\ res.location = router[res.layer].target
             /\ \E f \in {pkg.browser, pkg.module, pkg.main} :
                   f.has /\ res.location = PathJoin(<<base_url, f.val>>)
    /\ \A i \in 1..Len(pkg.exports) :
          (/\ res.kind # "none"
           /\ KeyCovers(pkg.exports[i][1], Unslashed(req))
           /\ ~EndsWith(pkg.exports[i][1], <<"*">>)
           /\ EndsWith(pkg.exports[i][2], <<".", "j", "s">>)
           /\ \A k \in 1..(i - 1) : ~KeyCovers(pkg.exports[k][1], Unslashed(req)))
              => /\ res.kind = "redirect"
                 /\ res.status = 302
                 /\ res.file = <<>>
                 /\ res.location = router[res.layer].target
                 /\ res.location = PathJoin(<<base_url, pkg.exports[i][2]>>)

\* GET /bar with "./bar": "lib/bar.js" is sent to /vendor/foo/lib/bar.js.
C12_Witness ==
    /\ req = <<"/", "b", "a", "r">>
    /\ \E i \in 1..Len(pkg.exports) :
          pkg.exports[i] = <<<<".", "/", "b", "a", "r">>, <<"l", "i", "b", "/", "b", "a", "r", ".", "j", "s">>>>
    /\ res.status = 302
    /\ res.location = <<"/", "v", "e", "n", "d", "o", "r", "/", "f", "o", "o", "/", "l", "i", "b", "/", "b", "a", "r", ".", "j", "s">>

\* C13: a request that is not for the package root and that no key of
\* pkg.exports covers is answered by the last layer, the static serving of the
\* package directory: the router sends no redirect and sets no status, and the
\* file looked up is the one the request path names below the package root.
C13_StaticFallback ==
    (/\ res.kind # "none"
     /\ Unslashed(req) # <<"/">>
     /\ \A i \in 1..Len(pkg.exports) : ~KeyCovers(pkg.exports[i][1], Unslashed(req)))
        => /\ res.kind = "static"
           /\ res.layer = Len(router)
           /\ router[res.layer].type = "static"
           /\ res.status = 0
           /\ res.location = <<>>
           /\ res.file = req

\* GET /unknown.css of a package that declares exports goes to the fallback.
C13_Witness ==
    /\ req = <<"/", "u", "n", "k", "n", "o", "w", "n", ".", "c", "s", "s">>
    /\ Len(pkg.exports) > 0
    /\ res.kind = "static"
    /\ res.file = <<"/", "u", "n", "k", "n", "o", "w", "n", ".", "c", "s", "s">>

\* C14: the router serveModule returns starts with the route of the package
\* root, and has no other; a key of pkg.exports that is empty once its
\* leading "./" or "." is stripped adds no route; GET of the root is answered
\* by the first route with the entry target.
C14_EntryRuleFirst ==
    built = "router" =>
        /\ Len(router) >= 2
        /\ router[1].type = "entry"
        /\ router[1].path = <<"/">>
        /\ \A n \in 2..Len(router) :
              /\ router[n].type # "entry"
              /\ Unslashed(router[n].path) = <<"/">> => n = Len(router)
        /\ \A i \in 1..Len(pkg.exports) :
              Len(StripDot(pkg.exports[i][1])) = 0
                  => \A n \in 2..(Len(router) - 1) : router[n].exp # i
        /\ (res.kind # "none" /\ Unslashed(req) = <<"/">>)
              => /\ res.layer = 1
                 /\ res.kind = "redirect"
                 /\ res.location = router[1].target

\* "exports" declares "." as index.js and "browser" is web.js: GET / is sent
\* to web.js.
C14_Witness ==
    /\ \E i \in 1..Len(pkg.exports) :
          pkg.exports[i] = <<<<".">>, <<"i", "n", "d", "e", "x", ".", "j", "s">>>>
    /\ pkg.browser = Str(<<"w", "e", "b", ".", "j", "s">>)
    /\ req = <<"/">>
    /\ res.location = <<"/", "v", "e", "n", "d", "o", "r", "/", "f", "o", "o", "/", "w", "e", "b", ".", "j", "s">>

\* C15 as stated: a package of the whitelist whose package.json is missing or
\* malformed gets no router, and that is all its failure does: the routers of
\* the other packages of the whitelist are still built and mounted.
C15_Original ==
    served # "no" =>
        \A k \in 1..Len(modules) :
            IF node_modules[modules[k]].file # "ok"
            THEN \A n \in 1..Len(mounted) : mounted[n].name # modules[k]
            ELSE \E n \in 1..Len(mounted) : mounted[n].name = modules[k]

\* C16: the router of serveModules has one mount per entry of the whitelist,
\* in its order, at '/'+name and built with path.join(base_url, name); a
\* request below /name is answered as the router of that package alone
\* answers the rest of the path, whatever else the whitelist holds, and a
\* request below the name of a package that is not in the whitelist is not
\* answered by any of them.
C16_DisjointMounts ==
    served = "router" =>
        /\ Len(mounted) = Len(modules)
        /\ \A k \in 1..Len(modules) :
              /\ mounted[k].name = modules[k]
              /\ mounted[k].path = <<"/">> \o modules[k]
              /\ mounted[k].base = PathJoin(<<base_url, modules[k]>>)
        /\ res.kind # "none" =>
              \A P \in PackageNames :
                  LET at == <<"/">> \o P
                      rest == IF req = at THEN <<"/">> ELSE Drop(req, Len(at))
                      base == PathJoin(<<base_url, P>>)
                  IN  (req = at \/ StartsWith(req, at \o <<"/">>))
                          => IF \E k \in 1..Len(modules) : modules[k] = P
                             THEN res = Respond(Layers(node_modules[P].pkg, base), base, rest)
                             ELSE res = Unhandled

\* "foobar" is mounted after "foo": GET /foobar/glob/x is sent to
\* /vendor/foobar/dist/x.min.js.
C16_Witness ==
    /\ modules = <<<<"f", "o", "o">>, <<"f", "o", "o", "b", "a", "r">>>>
    /\ req = <<"/", "f", "o", "o", "b", "a", "r", "/", "g", "l", "o", "b", "/", "x">>
    /\ res.status = 302
    /\ res.location = <<"/", "v", "e", "n", "d", "o", "r", "/", "f", "o", "o", "b", "a", "r", "/", "d", "i", "s", "t", "/", "x", ".", "m", "i", "n", ".", "j", "s">>

\* C17: graceful and terminating are written only by the SIGINT listener and
\* the timeout callback. The step of the terminate callback leaves both as they
\* are and at most clears the timeout; the step of the timeout callback takes
\* graceful from true to false and changes nothing else of the closure or the
\* process; terminating is written by the SIGINT listener only; and a step is
\* the step of one reaction.
C17_OnlyWriters ==
    [][ /\ (graceful' # graceful \/ terminating' # terminating)
              => (sigints' # sigints \/ timerFires' # timerFires)
        /\ drained' # drained
              => /\ UNCHANGED <<graceful, terminating>>
                 /\ timer' = (IF timer = "pending" THEN "cleared" ELSE timer)
                 /\ UNCHANGED <<sigints, timerFires, exited, exitCalls>>
        /\ timerFires' # timerFires
              => /\ graceful /\ ~graceful'
                 /\ UNCHANGED <<terminating, drained, conns, exited, exitCode,
                                terminateCalls, timersStarted, exitCalls, sigints>>
        /\ terminating' # terminating => sigints' # sigints
        /\ graceful' # graceful => timerFires' # timerFires
      ]_vars

\* Both callbacks have run, the timeout first: the mode is Kill, terminating is
\* still true, the process is running.
C17_Witness ==
    /\ drained
    /\ timerFires = 1
    /\ timer = "fired"
    /\ terminating
    /\ ~graceful
    /\ ~exited

\* C18: whatever SIGINTs, timeouts and drains happen, terminating never goes
\* back to false and graceful never goes back to true, and gsm.terminate,
\* setTimeout, the timeout callback and process.exit each run at most once.
C18_OneShotMonotone ==
    /\ [](/\ terminateCalls <= 1
          /\ timersStarted <= 1
          /\ timerFires <= 1
          /\ exitCalls <= 1)
    /\ [][ /\ terminating => terminating'
           /\ ~graceful => ~graceful'
           /\ exited => exited'
         ]_vars

\* Three SIGINTs or more: one started the drain, one was ignored, the timeout
\* fired and one ended the process.
C18_Witness ==
    /\ sigints >= 3
    /\ terminateCalls = 1
    /\ timersStarted = 1
    /\ timerFires = 1
    /\ exitCalls = 1
    /\ sigintsAtFlip >= 2

\* C19: with the timeout and the queued callbacks run by the event loop, a
\* drain in mode Graceful does not last forever: the listener drains or the
\* mode becomes Kill; and once a SIGINT has been delivered after the timeout
\* fired, the process has ended with status -1.
C19_DrainingEnds ==
    /\ Draining ~> (drained \/ ~graceful)
    /\ (timerFires > 0 /\ sigints > sigintsAtFlip) ~> Killed

\* After one SIGINT the timeout fired on a listener whose connections are still
\* open.
C19_Witness ==
    /\ Escalated
    /\ conns > 0
    /\ sigints = 1
    /\ timer = "fired"

====
